---- MODULE Spec2Model ----
(***************************************************************************)
(* A model of the persona-driven Java tutor (src/app.py, the Streamlit     *)
(* page script, with src/ai_hint_project/crew.py and levels.py).           *)
(*                                                                         *)
(* One step of the model is one run of the page script for one browser     *)
(* session: init_session_state(), update_streak(), and then the handler of *)
(* the one widget the user operated (Streamlit delivers one widget event   *)
(* per script run).  The st.rerun() that ends most handlers is a further   *)
(* run of the script with no widget event: the PageLoad step.              *)
(*                                                                         *)
(* Representation choices:                                                 *)
(*  - a calendar date is a day number; its ISO string (date.isoformat())   *)
(*    is in one-to-one correspondence with it, so the string comparison of *)
(*    app.py:652 is the comparison of the day numbers; None is NoDate;     *)
(*  - user_progress.json holds a JSON object of ints, one string-or-null   *)
(*    and a string-keyed object of ints, which json.dump/json.load return  *)
(*    unchanged: the file is modelled by the record it holds;              *)
(*  - a text is a sequence of atoms (a keyword, a run of other word        *)
(*    characters "x", one blank, one newline, one punctuation character);  *)
(*    the text it stands for is the concatenation of its atoms;            *)
(*  - a write that fails (open() raises) leaves the file as it was.        *)
(***************************************************************************)
EXTENDS Integers, Sequences, FiniteSets, TLC

VARIABLES
    today,              \* the calendar day datetime.now() reports
    AI_AVAILABLE,       \* app.py:539-546: whether ai_hint_project.crew was imported
    progress_file,      \* user_progress.json
    ratings_file,       \* ratings.json, one record per line
    session_state,      \* st.session_state of every browser session
    banner,             \* what the last script run displayed for its widget: "warning",
                        \* "error" (create_crew raised), "explained", "reviewed",
                        \* "rated", "rated_high", "rating_failed", or "none"
    disk_faults,        \* how many more writes of the progress file will fail
    installed,          \* the progress file the application started with
    call                \* the pure-function harness: function, arguments, result

vars == <<today, AI_AVAILABLE, progress_file, ratings_file, session_state, banner,
          disk_faults, installed, call>>

(***************************************************************************)
(* Bounds of the model.                                                    *)
(***************************************************************************)
MaxDay == 2
MaxAffinityGain == 15
MaxWriteFailures == 1
MaxTextLen == 3
MaxGrantXP == 400
MaxRace == 2
MaxQuestionLen == 2
\* the tasks an agent completes
MaxTasks == 12
\* the affinity a persona is taken to
MaxAffinity == 100

NoDate == 0 - 1

Min(a, b) == IF a <= b THEN a ELSE b

Get(d, k, default) == IF k \in DOMAIN d THEN d[k] ELSE default

Put(d, k, v) == [x \in DOMAIN d \cup {k} |-> IF x = k THEN v ELSE d[x]]

EmptyDict == [x \in {} |-> 0]

(***************************************************************************)
(* Static data of app.py.                                                  *)
(***************************************************************************)
persona_unlock_levels ==
    [p \in {"Nova", "Spider-Gwen", "Yoda", "Elsa", "Batman", "Wednesday Addams",
            "Shuri", "Iron Man", "Katniss Everdeen"} |->
        CASE p \in {"Nova", "Spider-Gwen", "Yoda", "Elsa"} -> 1
          [] p \in {"Batman", "Wednesday Addams"} -> 11
          [] OTHER -> 21]

get_xp_for_level(level) == level * 100

get_affinity_tier(affinity) ==
    IF affinity >= 100 THEN "Platinum"
    ELSE IF affinity >= 75 THEN "Gold"
    ELSE IF affinity >= 50 THEN "Silver"
    ELSE IF affinity >= 25 THEN "Bronze"
    ELSE "None"

NoReward == [type |-> "none"]

DefaultProgress ==
    [level |-> 1, xp |-> 0, streak |-> 0, last_visit |-> NoDate, affinity |-> EmptyDict]

NoFile == [exists |-> FALSE, data |-> DefaultProgress]

(***************************************************************************)
(* Persistence of the progress record.                                     *)
(***************************************************************************)
load_user_progress(f) == IF f.exists THEN f.data ELSE DefaultProgress

\* save_user_progress writing the scalar fields only
save_user_progress_partial(data, f, ok) ==
    IF ok THEN [exists |-> TRUE, data |-> [data EXCEPT !.affinity = EmptyDict]] ELSE f

\* save_user_progress keeping the file's affinity entries that data lacks or has lower
save_user_progress_merge(data, f, ok) ==
    IF ~ok THEN f
    ELSE LET old == load_user_progress(f).affinity
             new == data.affinity
         IN  [exists |-> TRUE,
              data |-> [data EXCEPT !.affinity =
                  [x \in DOMAIN old \cup DOMAIN new |->
                      IF Get(old, x, 0) >= Get(new, x, 0) THEN Get(old, x, 0)
                      ELSE Get(new, x, 0)]]]

save_user_progress(data, f, ok) == IF ok THEN [exists |-> TRUE, data |-> data] ELSE f

(***************************************************************************)
(* The gamification helpers.  W is the part of the world a helper reads    *)
(* and writes: the session's progress dict (one object, mutated in place), *)
(* the session's show_reward and the progress file.  ok says whether the   *)
(* helper's save_user_progress call can write.                             *)
(***************************************************************************)
\* add_xp spending the threshold on a level-up
add_xp_carry(W, amount, ok) ==
    LET xp0 == W.progress.xp + amount
        next_level_xp == get_xp_for_level(W.progress.level)
        levelUp == xp0 >= next_level_xp
        xp1 == IF levelUp THEN xp0 - next_level_xp ELSE xp0
        level1 == IF levelUp THEN W.progress.level + 1 ELSE W.progress.level
        p1 == [W.progress EXCEPT !.xp = xp1, !.level = level1]
    IN  [progress |-> p1,
         show_reward |-> IF levelUp THEN [type |-> "level_up", level |-> level1]
                         ELSE W.show_reward,
         file |-> save_user_progress(p1, W.file, ok)]

\* add_xp levelling up only above the threshold
add_xp_strict(W, amount, ok) ==
    LET xp1 == W.progress.xp + amount
        next_level_xp == get_xp_for_level(W.progress.level)
        levelUp == xp1 > next_level_xp
        level1 == IF levelUp THEN W.progress.level + 1 ELSE W.progress.level
        p1 == [W.progress EXCEPT !.xp = xp1, !.level = level1]
    IN  [progress |-> p1,
         show_reward |-> IF levelUp THEN [type |-> "level_up", level |-> level1]
                         ELSE W.show_reward,
         file |-> save_user_progress(p1, W.file, ok)]

\* add_xp levelling up through every threshold the XP has passed
add_xp_cascade(W, amount, ok) ==
    LET xp1 == W.progress.xp + amount
        next_level_xp == get_xp_for_level(W.progress.level)
        levelUp == xp1 >= next_level_xp
        level1 == IF levelUp THEN (xp1 \div 100) + 1 ELSE W.progress.level
        p1 == [W.progress EXCEPT !.xp = xp1, !.level = level1]
    IN  [progress |-> p1,
         show_reward |-> IF levelUp THEN [type |-> "level_up", level |-> level1]
                         ELSE W.show_reward,
         file |-> save_user_progress(p1, W.file, ok)]

add_xp(W, amount, ok) ==
    LET xp1 == W.progress.xp + amount
        next_level_xp == get_xp_for_level(W.progress.level)
        levelUp == xp1 >= next_level_xp
        level1 == IF levelUp THEN W.progress.level + 1 ELSE W.progress.level
        p1 == [W.progress EXCEPT !.xp = xp1, !.level = level1]
    IN  [progress |-> p1,
         show_reward |-> IF levelUp THEN [type |-> "level_up", level |-> level1]
                         ELSE W.show_reward,
         file |-> save_user_progress(p1, W.file, ok)]

\* update_streak counting every first visit of a day as one more day of the streak
update_streak_noreset(W, d1, d2, d3, okBonus, ok) ==
    IF W.progress.last_visit = d1 THEN W
    ELSE LET p2 == [W.progress EXCEPT !.streak = @ + 1, !.last_visit = d1]
         IN  [W EXCEPT !.progress = p2, !.file = save_user_progress(p2, W.file, ok)]

\* update_streak granting the bonus for every day added to the streak
update_streak_every(W, d1, d2, d3, okBonus, ok) ==
    LET progress == W.progress
        last_date == progress.last_visit
    IN  IF progress.last_visit = d1 THEN W
        ELSE LET Wa == IF last_date # NoDate /\ last_date = d2 - 1
                       THEN add_xp([W EXCEPT !.progress.streak = @ + 1,
                                             !.show_reward =
                                                 [type |-> "streak",
                                                  days |-> progress.streak + 1]],
                                   20, okBonus)
                       ELSE IF last_date = NoDate \/ last_date # d3
                            THEN [W EXCEPT !.progress.streak = 1]
                            ELSE W
                 p2 == [Wa.progress EXCEPT !.last_visit = d1]
             IN  [Wa EXCEPT !.progress = p2,
                            !.file = save_user_progress(p2, Wa.file, ok)]

\* d1, d2, d3: the calendar days the three datetime.now() calls report
\* (app.py:650, 654, 664); okBonus, ok: the writes of add_xp(20) and of line 668.
update_streak(W, d1, d2, d3, okBonus, ok) ==
    LET progress == W.progress
        last_date == progress.last_visit
        yesterday == d2 - 1
    IN  IF progress.last_visit = d1 THEN W
        ELSE LET Wa == IF last_date # NoDate /\ last_date = yesterday
                       THEN LET p1 == [progress EXCEPT !.streak = @ + 1]
                            IN  IF p1.streak % 7 = 0
                                THEN add_xp([W EXCEPT !.progress = p1,
                                                      !.show_reward =
                                                          [type |-> "streak", days |-> p1.streak]],
                                            20, okBonus)
                                ELSE [W EXCEPT !.progress = p1]
                       ELSE IF last_date = NoDate \/ last_date # d3
                            THEN [W EXCEPT !.progress.streak = 1]
                            ELSE W
                 p2 == [Wa.progress EXCEPT !.last_visit = d1]
             IN  [Wa EXCEPT !.progress = p2,
                            !.file = save_user_progress(p2, Wa.file, ok)]

\* add_affinity keeping the entry of persona_name only
add_affinity_reset(W, persona_name, amount, ok) ==
    LET new_affinity == Get(W.progress.affinity, persona_name, 0) + amount
        p1 == [W.progress EXCEPT !.affinity = [x \in {persona_name} |-> new_affinity]]
    IN  [progress |-> p1, show_reward |-> W.show_reward,
         file |-> save_user_progress(p1, W.file, ok)]

add_affinity(W, persona_name, amount, ok) ==
    LET old_affinity == Get(W.progress.affinity, persona_name, 0)
        new_affinity == old_affinity + amount
        p1 == [W.progress EXCEPT !.affinity = Put(@, persona_name, new_affinity)]
        old_tier == get_affinity_tier(old_affinity)
        new_tier == get_affinity_tier(new_affinity)
    IN  [progress |-> p1,
         show_reward |-> IF new_tier # old_tier /\ new_tier # "None"
                         THEN [type |-> "affinity", persona |-> persona_name, tier |-> new_tier]
                         ELSE W.show_reward,
         file |-> save_user_progress(p1, W.file, ok)]

\* save_rating opening the log with mode "w"
save_rating_overwrite(rating_data, f, ok) == IF ok THEN <<rating_data>> ELSE f

save_rating(rating_data, f, ok) == IF ok THEN Append(f, rating_data) ELSE f

(***************************************************************************)
(* is_code_input (crew.py:114-120): re.search of thirteen patterns.  A     *)
(* pattern is a sequence of items: a literal atom, the assertion \b, or a  *)
(* character class under *, + or ?.  Lazy and greedy repetition find the   *)
(* same texts, so *? is *.  The patterns are compiled without flags: "."   *)
(* is any character but a newline, \s is a blank or a newline.             *)
(***************************************************************************)
Keywords == {"def", "class", "import", "return", "if", "for", "while", "try", "except"}

WordAtoms == Keywords \cup {"x"}

Atoms == WordAtoms \cup {" ", "\n", ":", "=", "(", ")", "{", "}", "<", ">"}

InClass(c, a) ==
    CASE c = "\\w" -> a \in WordAtoms
      [] c = "\\s" -> a \in {" ", "\n"}
      [] c = "." -> a # "\n"
      [] OTHER -> a = c

Lit(a) == [k |-> "lit", c |-> a]
Star(c) == [k |-> "star", c |-> c]
Plus(c) == [k |-> "plus", c |-> c]
Opt(c) == [k |-> "opt", c |-> c]
B == [k |-> "b", c |-> ""]

\* \bKW\b
WordPattern(kw) == <<B, Lit(kw), B>>

\* \bKW\b\s*\(?.*?\)?\s*:
BlockPattern(kw) ==
    <<B, Lit(kw), B, Star("\\s"), Opt("("), Star("."), Opt(")"), Star("\\s"), Lit(":")>>

\* \bKW\b\s*:
ColonPattern(kw) == <<B, Lit(kw), B, Star("\\s"), Lit(":")>>

\* the pattern list with every keyword as \bKW\b
code_patterns_loose ==
    << WordPattern("def"), WordPattern("class"), WordPattern("import"), WordPattern("return"),
       WordPattern("if"), WordPattern("for"), WordPattern("while"),
       WordPattern("try"), WordPattern("except"),
       <<Plus("\\w"), Star("\\s"), Lit("="), Star("\\s"), Plus(".")>>,
       <<Plus("\\w"), Lit("("), Star("."), Lit(")")>>,
       <<Lit("{"), Star("."), Lit("}")>>,
       <<Lit("<"), Star("."), Lit(">")>> >>

code_patterns ==
    << WordPattern("def"), WordPattern("class"), WordPattern("import"), WordPattern("return"),
       BlockPattern("if"), BlockPattern("for"), BlockPattern("while"),
       ColonPattern("try"), ColonPattern("except"),
       <<Plus("\\w"), Star("\\s"), Lit("="), Star("\\s"), Plus(".")>>,
       <<Plus("\\w"), Lit("("), Star("."), Lit(")")>>,
       <<Lit("{"), Star("."), Lit("}")>>,
       <<Lit("<"), Star("."), Lit(">")>> >>

IsWordAt(text, i) == i >= 1 /\ i <= Len(text) /\ text[i] \in WordAtoms

\* whether items k.. of the pattern match the text from position i on
RECURSIVE MatchFrom(_, _, _, _)
MatchFrom(pat, k, text, i) ==
    IF k > Len(pat) THEN TRUE
    ELSE LET item == pat[k]
             here == i <= Len(text) /\ InClass(item.c, text[i])
         IN  CASE item.k = "lit" -> here /\ MatchFrom(pat, k + 1, text, i + 1)
               [] item.k = "b" -> /\ IsWordAt(text, i - 1) # IsWordAt(text, i)
                                  /\ MatchFrom(pat, k + 1, text, i)
               [] item.k = "star" -> \/ MatchFrom(pat, k + 1, text, i)
                                     \/ here /\ MatchFrom(pat, k, text, i + 1)
               [] item.k = "plus" -> /\ here
                                     /\ \/ MatchFrom(pat, k + 1, text, i + 1)
                                        \/ MatchFrom(pat, k, text, i + 1)
               [] OTHER -> \/ MatchFrom(pat, k + 1, text, i)
                           \/ here /\ MatchFrom(pat, k + 1, text, i + 1)

re_search(pat, text) == \E i \in 1..(Len(text) + 1) : MatchFrom(pat, 1, text, i)

is_code_input(text) == \E n \in 1..Len(code_patterns) : re_search(code_patterns[n], text)

\* text[:n]
Slice(text, n) == SubSeq(text, 1, Min(Len(text), n))

(***************************************************************************)
(* create_crew as app.py sees it.  Without the crew module (demo mode,     *)
(* app.py:545-546) it returns a string made of the persona and the prompt. *)
(* With it (crew.py:128-183) it raises ValueError for a persona that       *)
(* agents.yaml does not hold, whatever the crew run raises, and otherwise  *)
(* reaches line 178, where the name levels is bound by no import of        *)
(* crew.py: the call raises NameError.                                     *)
(***************************************************************************)
create_crew(ai, persona, prompt, known, kickoff) ==
    IF ~ai THEN [raised |-> "no", persona |-> persona, prompt |-> Slice(prompt, 50)]
    ELSE IF ~known THEN [raised |-> "ValueError"]
    ELSE IF kickoff # "ok" THEN [raised |-> "Exception"]
    ELSE [raised |-> "NameError"]

\* "Review this Java code and provide feedback:\n\n" (app.py:1129)
review_prefix ==
    <<"x", " ", "x", " ", "x", " ", "x", " ", "x", " ", "x", " ", "x", ":", "\n", "\n">>

\* str.strip() leaves nothing
IsBlank(text) == \A i \in 1..Len(text) : text[i] \in {" ", "\n"}

(***************************************************************************)
(* The inputs of the model's user.                                         *)
(***************************************************************************)
Questions == {<<" ">>, <<"def", " ", "x">>}

Codes == {<<>>, <<"class", " ", "x", "{", "}">>}

Sliders == {<<4, 4, 3>>, <<4, 4, 4>>}

\* What a script run meets.  midnight: 0 when the run stays within one day,
\* 1 when the day changes between the datetime.now() calls of app.py:650 and
\* 654; ok...: whether the save_user_progress call of add_xp(20) in
\* update_streak, of update_streak, of the handler's add_xp and of the
\* handler's add_affinity can write.
Oks == IF disk_faults = 0 THEN {TRUE} ELSE BOOLEAN

Envs == [midnight : 0..1, okBonus : Oks, okStreak : Oks, okXp : Oks, okAffinity : Oks]

\* the runs of a widget whose handler saves nothing
NavEnvs == [midnight : 0..1, okBonus : Oks, okStreak : Oks, okXp : {TRUE}, okAffinity : {TRUE}]

NoPersona == "(none)"

None == [none |-> TRUE]

\* the st.session_state of a browser session before its first script run
NewSession ==
    [loaded |-> FALSE, user_progress |-> DefaultProgress,
     explanation |-> None, code_review |-> None, current_question |-> <<>>,
     current_persona |-> NoPersona, show_analytics |-> FALSE, show_snippets |-> FALSE,
     show_rating |-> FALSE, show_reward |-> NoReward, active_mode |-> "question"]

(***************************************************************************)
(* The top of the script: app.py:719 and 722.                              *)
(***************************************************************************)
init_session_state(ss, f) ==
    IF ss.loaded THEN ss
    ELSE [ss EXCEPT !.loaded = TRUE, !.user_progress = load_user_progress(f)]

\* the day datetime.now() reports from app.py:654 on
Later(env) == today + env.midnight

Top(s, env) ==
    LET ss == init_session_state(session_state[s], progress_file)
    IN  update_streak([progress |-> ss.user_progress, show_reward |-> ss.show_reward,
                       file |-> progress_file],
                      today, Later(env), Later(env), env.okBonus, env.okStreak)

Failed(ok) == IF ok THEN 0 ELSE 1

Failures(env) ==
    Failed(env.okBonus) + Failed(env.okStreak) + Failed(env.okXp) + Failed(env.okAffinity)

\* the runs the bounds of the model allow
ClockOk(env) ==
    /\ env.midnight # 0 => today < MaxDay
    /\ Failures(env) <= disk_faults
    /\ disk_faults' = disk_faults - Failures(env)

\* what the script run leaves behind: the session's state with W written back
Finish(s, W, ss1, env, shown) ==
    /\ session_state' = [session_state EXCEPT ![s] =
           [ss1 EXCEPT !.loaded = TRUE, !.user_progress = W.progress,
                       !.show_reward = W.show_reward]]
    /\ progress_file' = W.file
    /\ today' = Later(env)
    /\ banner' = shown
    /\ UNCHANGED <<AI_AVAILABLE, installed, call>>

(***************************************************************************)
(* What the script renders, which decides the widgets a run can reach.     *)
(***************************************************************************)
\* available_personas unlocking a persona one level late
available_personas_strict(user_level) ==
    {p \in DOMAIN persona_unlock_levels : persona_unlock_levels[p] < user_level}

available_personas(user_level) ==
    {p \in DOMAIN persona_unlock_levels : persona_unlock_levels[p] <= user_level}

\* the tiers of the snippets of each persona, in the order of CODE_SNIPPETS
CODE_SNIPPETS ==
    [p \in DOMAIN persona_unlock_levels |->
        CASE p = "Nova" -> <<0, 0, 25, 25, 50, 50>>
          [] p \in {"Batman", "Shuri"} -> <<0, 0, 25, 50>>
          [] p \in {"Spider-Gwen", "Yoda", "Iron Man"} -> <<0, 25, 50>>
          [] p = "Wednesday Addams" -> <<0, 25>>
          [] OTHER -> <<0, 0, 25>>]

\* a snippet unlocked only above its tier
is_unlocked_strict(affinity, tier) == affinity > tier

\* app.py:960
is_unlocked(affinity, tier) == affinity >= tier

\* app.py:942-972: for each persona listed, which of its snippets are shown unlocked
snippets_library(progress) ==
    [p \in available_personas(progress.level) \cap DOMAIN CODE_SNIPPETS |->
        [i \in 1..Len(CODE_SNIPPETS[p]) |->
            is_unlocked(Get(progress.affinity, p, 0), CODE_SNIPPETS[p][i])]]

MainView(ss) == ~ss.show_snippets /\ ~ss.show_analytics

TutorView(ss) == MainView(ss) /\ ss.current_persona # NoPersona

(***************************************************************************)
(* The script runs, one per widget.  Each is enabled when the widget was   *)
(* on the page the user saw (the state before the run) and is reached by   *)
(* the run itself (the state after update_streak).                         *)
(***************************************************************************)
PageLoad(s, env) ==
    /\ ClockOk(env)
    /\ Finish(s, Top(s, env), session_state[s], env, "none")
    /\ UNCHANGED ratings_file

\* app.py:793-837
CloseReward(s, env) ==
    LET ss == session_state[s]
        W == Top(s, env)
    IN  /\ ss.loaded /\ ClockOk(env)
        /\ ss.show_reward.type # "none"
        /\ W.show_reward.type = ss.show_reward.type
        /\ Finish(s, [W EXCEPT !.show_reward = NoReward],
                  IF W.show_reward.type = "affinity"
                  THEN [ss EXCEPT !.show_snippets = TRUE] ELSE ss,
                  env, "none")
        /\ UNCHANGED ratings_file

\* app.py:891-896
ToggleAnalytics(s, env) ==
    LET ss == session_state[s]
    IN  /\ ss.loaded /\ ClockOk(env)
        /\ Finish(s, Top(s, env),
                  [ss EXCEPT !.show_analytics = ~ss.show_analytics, !.show_snippets = FALSE],
                  env, "none")
        /\ UNCHANGED ratings_file

\* app.py:898-903
ToggleSnippets(s, env) ==
    LET ss == session_state[s]
    IN  /\ ss.loaded /\ ClockOk(env)
        /\ Finish(s, Top(s, env),
                  [ss EXCEPT !.show_snippets = ~ss.show_snippets, !.show_analytics = FALSE],
                  env, "none")
        /\ UNCHANGED ratings_file

\* app.py:1022-1041
SelectPersona(s, persona_name, env) ==
    LET ss == session_state[s]
        W == Top(s, env)
    IN  /\ ss.loaded /\ ClockOk(env)
        /\ MainView(ss)
        /\ persona_name \in available_personas(ss.user_progress.level)
        /\ persona_name \in available_personas(W.progress.level)
        /\ Finish(s, W, [ss EXCEPT !.current_persona = persona_name],
                  env, "none")
        /\ UNCHANGED ratings_file

\* app.py:1088-1100
SetMode(s, mode, env) ==
    LET ss == session_state[s]
    IN  /\ ss.loaded /\ ClockOk(env)
        /\ TutorView(ss)
        /\ Finish(s, Top(s, env), [ss EXCEPT !.active_mode = mode], env, "none")
        /\ UNCHANGED ratings_file

\* the bound of the model on what a run adds to a persona's affinity
AffinityRoom(W, persona_name, amount) ==
    Get(W.progress.affinity, persona_name, 0) + amount
        <= Get(load_user_progress(installed).affinity, persona_name, 0) + MaxAffinityGain

\* app.py:1107-1142
GetCodeReview(s, user_code, known, kickoff, env) ==
    LET ss == session_state[s]
        W == Top(s, env)
        selected_persona == ss.current_persona
        result == create_crew(AI_AVAILABLE, selected_persona, review_prefix \o user_code,
                              known, kickoff)
    IN  /\ ss.loaded /\ ClockOk(env)
        /\ TutorView(ss) /\ ss.active_mode = "code_review"
        /\ UNCHANGED ratings_file
        /\ IF IsBlank(user_code)
           THEN Finish(s, W, ss, env, "warning")
           ELSE IF result.raised # "no"
           THEN Finish(s, W, ss, env, "error")
           ELSE /\ AffinityRoom(W, selected_persona, 15)
                /\ Finish(s, add_affinity(add_xp(W, 15, env.okXp), selected_persona, 15,
                                          env.okAffinity),
                          [ss EXCEPT !.code_review = result], env, "reviewed")

\* app.py:1154-1156
ClearReview(s, env) ==
    LET ss == session_state[s]
    IN  /\ ss.loaded /\ ClockOk(env)
        /\ TutorView(ss) /\ ss.active_mode = "code_review"
        /\ ss.code_review # None
        /\ Finish(s, Top(s, env), [ss EXCEPT !.code_review = None], env, "none")
        /\ UNCHANGED ratings_file

\* the question handler awarding the XP before it calls create_crew
AskQuestion_award_first(s, user_question, known, kickoff, env) ==
    LET ss == session_state[s]
        W == Top(s, env)
        selected_persona == ss.current_persona
        result == create_crew(AI_AVAILABLE, selected_persona, user_question, known, kickoff)
        W1 == add_xp(W, 10, env.okXp)
    IN  /\ ss.loaded /\ ClockOk(env)
        /\ TutorView(ss) /\ ss.active_mode # "code_review"
        /\ UNCHANGED ratings_file
        /\ IF IsBlank(user_question)
           THEN Finish(s, W, ss, env, "warning")
           ELSE IF result.raised # "no"
           THEN Finish(s, W1, ss, env, "error")
           ELSE /\ AffinityRoom(W, selected_persona, 10)
                /\ Finish(s, add_affinity(W1, selected_persona, 10, env.okAffinity),
                          [ss EXCEPT !.explanation = result,
                                     !.current_question = user_question,
                                     !.show_rating = TRUE],
                          env, "explained")

\* app.py:1161-1205
AskQuestion(s, user_question, known, kickoff, env) ==
    LET ss == session_state[s]
        W == Top(s, env)
        selected_persona == ss.current_persona
        result == create_crew(AI_AVAILABLE, selected_persona, user_question, known, kickoff)
    IN  /\ ss.loaded /\ ClockOk(env)
        /\ TutorView(ss) /\ ss.active_mode # "code_review"
        /\ UNCHANGED ratings_file
        /\ IF IsBlank(user_question)
           THEN Finish(s, W, ss, env, "warning")
           ELSE IF result.raised # "no"
           THEN Finish(s, W, ss, env, "error")
           ELSE /\ AffinityRoom(W, selected_persona, 10)
                /\ Finish(s, add_affinity(add_xp(W, 10, env.okXp), selected_persona, 10,
                                          env.okAffinity),
                          [ss EXCEPT !.explanation = result,
                                     !.current_question = user_question,
                                     !.show_rating = TRUE],
                          env, "explained")

\* app.py:1176-1180
ClearExplanation(s, env) ==
    LET ss == session_state[s]
    IN  /\ ss.loaded /\ ClockOk(env)
        /\ TutorView(ss) /\ ss.active_mode # "code_review"
        /\ ss.explanation # None
        /\ Finish(s, Top(s, env), [ss EXCEPT !.explanation = None, !.show_rating = FALSE],
                  env, "none")
        /\ UNCHANGED ratings_file

\* a high rating from an average of 11 / 3 on
HighRating_rounded(sliders) == sliders[1] + sliders[2] + sliders[3] >= 3 * 4 - 1

\* (clarity + accuracy + helpfulness) / 3 >= 4, a float division that is exact
\* at the threshold (12 / 3 is 4.0)
HighRating(sliders) == sliders[1] + sliders[2] + sliders[3] >= 3 * 4

\* the rating handler granting the XP of an explanation
SubmitRating_ten(s, sliders, okRating, env) ==
    LET ss == session_state[s]
        W == Top(s, env)
        selected_persona == ss.current_persona
        rating_data ==
            [timestamp |-> Later(env), persona |-> selected_persona,
             question |-> Slice(ss.current_question, 200),
             user_level |-> W.progress.level,
             clarity |-> sliders[1], accuracy |-> sliders[2], helpfulness |-> sliders[3],
             feedback |-> <<>>]
        W1 == add_xp(W, 10, env.okXp)
    IN  /\ ss.loaded /\ ClockOk(env)
        /\ TutorView(ss) /\ ss.active_mode # "code_review"
        /\ ss.explanation # None /\ ss.show_rating
        /\ ratings_file' = save_rating(rating_data, ratings_file, okRating)
        /\ IF ~okRating
           THEN Finish(s, W, ss, env, "rating_failed")
           ELSE IF HighRating(sliders)
           THEN /\ AffinityRoom(W, selected_persona, 5)
                /\ Finish(s, add_affinity(W1, selected_persona, 5, env.okAffinity),
                          [ss EXCEPT !.show_rating = FALSE], env, "rated_high")
           ELSE Finish(s, W1, [ss EXCEPT !.show_rating = FALSE], env, "rated")

\* the rating handler awarding before it looks at what save_rating returned
SubmitRating_award_anyway(s, sliders, okRating, env) ==
    LET ss == session_state[s]
        W == Top(s, env)
        selected_persona == ss.current_persona
        rating_data ==
            [timestamp |-> Later(env), persona |-> selected_persona,
             question |-> Slice(ss.current_question, 200),
             user_level |-> W.progress.level,
             clarity |-> sliders[1], accuracy |-> sliders[2], helpfulness |-> sliders[3],
             feedback |-> <<>>]
        W1 == add_xp(W, 5, env.okXp)
    IN  /\ ss.loaded /\ ClockOk(env)
        /\ TutorView(ss) /\ ss.active_mode # "code_review"
        /\ ss.explanation # None /\ ss.show_rating
        /\ ratings_file' = save_rating(rating_data, ratings_file, okRating)
        /\ IF ~okRating
           THEN Finish(s, W1, ss, env, "rating_failed")
           ELSE IF HighRating(sliders)
           THEN /\ AffinityRoom(W, selected_persona, 5)
                /\ Finish(s, add_affinity(W1, selected_persona, 5, env.okAffinity),
                          [ss EXCEPT !.show_rating = FALSE], env, "rated_high")
           ELSE Finish(s, W1, [ss EXCEPT !.show_rating = FALSE], env, "rated")

\* app.py:1208-1264
SubmitRating(s, sliders, okRating, env) ==
    LET ss == session_state[s]
        W == Top(s, env)
        selected_persona == ss.current_persona
        rating_data ==
            [timestamp |-> Later(env), persona |-> selected_persona,
             question |-> Slice(ss.current_question, 200),
             user_level |-> W.progress.level,
             clarity |-> sliders[1], accuracy |-> sliders[2], helpfulness |-> sliders[3],
             feedback |-> <<>>]
        W1 == add_xp(W, 5, env.okXp)
    IN  /\ ss.loaded /\ ClockOk(env)
        /\ TutorView(ss) /\ ss.active_mode # "code_review"
        /\ ss.explanation # None /\ ss.show_rating
        /\ ratings_file' = save_rating(rating_data, ratings_file, okRating)
        /\ IF ~okRating
           THEN Finish(s, W, ss, env, "rating_failed")
           ELSE IF HighRating(sliders)
           THEN /\ AffinityRoom(W, selected_persona, 5)
                /\ Finish(s, add_affinity(W1, selected_persona, 5, env.okAffinity),
                          [ss EXCEPT !.show_rating = FALSE], env, "rated_high")
           ELSE Finish(s, W1, [ss EXCEPT !.show_rating = FALSE], env, "rated")

\* midnight passes while no script runs
Tick ==
    /\ today < MaxDay
    /\ today' = today + 1
    /\ UNCHANGED <<AI_AVAILABLE, progress_file, ratings_file, session_state, banner,
          disk_faults, installed, call>>

(***************************************************************************)
(* The application, one browser session, on a disk that takes every write *)
(* of the progress file.  It starts on day 1 with no progress file, or     *)
(* with the file an earlier run of the application left on day 0:          *)
(*  - Rookie: 1 visit, 6 code reviews by Yoda;                             *)
(*  - Veteran10: 341 daily visits (48 streak milestones of 20 XP), one     *)
(*    review by Nova, one by Yoda;                                         *)
(*  - Veteran20: 697 daily visits (99 milestones), one explanation by      *)
(*    Nova.                                                                *)
(***************************************************************************)
Rookie ==
    [level |-> 1, xp |-> 90, streak |-> 1, last_visit |-> 0,
     affinity |-> [p \in {"Yoda"} |-> 90]]

Veteran10 ==
    [level |-> 10, xp |-> 990, streak |-> 341, last_visit |-> 0,
     affinity |-> [p \in {"Nova", "Yoda"} |-> 15]]

Veteran20 ==
    [level |-> 20, xp |-> 1990, streak |-> 697, last_visit |-> 0,
     affinity |-> [p \in {"Nova"} |-> 10]]

InitFiles ==
    {NoFile} \cup {[exists |-> TRUE, data |-> r] : r \in {Rookie, Veteran10, Veteran20}}

NoCall == [fn |-> "none"]

InitApp(sessions, faults) ==
    /\ today = 1
    /\ AI_AVAILABLE \in BOOLEAN
    /\ progress_file \in InitFiles
    /\ installed = progress_file
    /\ ratings_file = <<>>
    /\ session_state = [s \in sessions |-> NewSession]
    /\ banner = "none"
    /\ disk_faults = faults
    /\ call = NoCall

\* the personas the model's user clicks: one unlocked from the start, one of
\* the last to be unlocked
Clicked == {"Nova", "Shuri"}

Init == InitApp({1}, 0)

DoPageLoad == \E s \in DOMAIN session_state, env \in NavEnvs : PageLoad(s, env)

DoCloseReward == \E s \in DOMAIN session_state, env \in NavEnvs : CloseReward(s, env)

DoToggleAnalytics == \E s \in DOMAIN session_state, env \in NavEnvs : ToggleAnalytics(s, env)

DoToggleSnippets == \E s \in DOMAIN session_state, env \in NavEnvs : ToggleSnippets(s, env)

DoSelectPersona ==
    \E s \in DOMAIN session_state, env \in NavEnvs, p \in Clicked : SelectPersona(s, p, env)

DoSetMode ==
    \E s \in DOMAIN session_state, env \in NavEnvs, m \in {"question", "code_review"} :
        SetMode(s, m, env)

DoClearReview == \E s \in DOMAIN session_state, env \in NavEnvs : ClearReview(s, env)

DoClearExplanation == \E s \in DOMAIN session_state, env \in NavEnvs : ClearExplanation(s, env)

DoGetCodeReview ==
    \E s \in DOMAIN session_state, env \in Envs, c \in Codes, known \in BOOLEAN,
       kickoff \in {"ok", "raises"} :
        GetCodeReview(s, c, known, kickoff, env)

DoAskQuestion ==
    \E s \in DOMAIN session_state, env \in Envs, q \in Questions, known \in BOOLEAN,
       kickoff \in {"ok", "raises"} :
        AskQuestion(s, q, known, kickoff, env)

DoSubmitRating ==
    \E s \in DOMAIN session_state, env \in Envs, sl \in Sliders, okRating \in BOOLEAN :
        SubmitRating(s, sl, okRating, env)

Next ==
    \/ Tick
    \/ DoPageLoad
    \/ DoCloseReward
    \/ DoToggleAnalytics
    \/ DoToggleSnippets
    \/ DoSelectPersona
    \/ DoSetMode
    \/ DoGetCodeReview
    \/ DoClearReview
    \/ DoAskQuestion
    \/ DoClearExplanation
    \/ DoSubmitRating

Spec == Init /\ [][Next]_vars

\* the same application on a disk that fails up to MaxWriteFailures writes
InitFaulty == InitApp({1}, MaxWriteFailures)

SpecFaulty == InitFaulty /\ [][Next]_vars

(***************************************************************************)
(* is_code_input on its own: one call on any text of up to MaxTextLen      *)
(* atoms.                                                                  *)
(***************************************************************************)
RECURSIVE TextsUpTo(_)
TextsUpTo(n) ==
    IF n = 0 THEN {<<>>}
    ELSE LET shorter == TextsUpTo(n - 1)
         IN  shorter \cup {Append(t, a) : t \in {u \in shorter : Len(u) = n - 1}, a \in Atoms}

Idle ==
    /\ today = 1
    /\ AI_AVAILABLE = TRUE
    /\ progress_file = NoFile
    /\ installed = NoFile
    /\ ratings_file = <<>>
    /\ session_state = [s \in {1} |-> NewSession]
    /\ banner = "none"
    /\ disk_faults = 0

InitDetect ==
    /\ Idle
    /\ call \in {[fn |-> "is_code_input", text |-> t, returned |-> FALSE, result |-> FALSE] :
                    t \in TextsUpTo(MaxTextLen)}

Detect ==
    /\ call.fn = "is_code_input" /\ ~call.returned
    /\ call' = [call EXCEPT !.returned = TRUE, !.result = is_code_input(call.text)]
    /\ UNCHANGED <<today, AI_AVAILABLE, progress_file, ratings_file, session_state, banner,
                   disk_faults, installed>>

SpecDetect == InitDetect /\ [][Detect]_vars

(***************************************************************************)
(* add_xp on its own: any sequence of calls, with the amounts the          *)
(* application grants and amounts that span several levels, on the default *)
(* progress record.                                                        *)
(***************************************************************************)
GrantAmounts == {0, 5, 10, 15, 20, 100, 250}

InitGrant ==
    /\ Idle
    /\ call = NoCall

Grant(amount) ==
    LET ss == init_session_state(session_state[1], progress_file)
        W == add_xp([progress |-> ss.user_progress, show_reward |-> ss.show_reward,
                     file |-> progress_file], amount, TRUE)
    IN  /\ ss.user_progress.xp + amount <= MaxGrantXP
        /\ session_state' = [session_state EXCEPT ![1] =
               [ss EXCEPT !.user_progress = W.progress, !.show_reward = W.show_reward]]
        /\ progress_file' = W.file
        /\ call' = [fn |-> "add_xp", amount |-> amount]
        /\ UNCHANGED <<today, AI_AVAILABLE, ratings_file, banner, disk_faults, installed>>

NextGrant == \E amount \in GrantAmounts : Grant(amount)

SpecGrant == InitGrant /\ [][NextGrant]_vars

(***************************************************************************)
(* add_affinity on its own: any sequence of calls with the amounts the     *)
(* handlers award (app.py:1136, 1198, 1257), for two personas a user of    *)
(* level 1 can select, on the default progress record.                     *)
(***************************************************************************)
AffinityAmounts == {5, 10, 15}

Befriended == {"Nova", "Elsa"}

InitAffinity ==
    /\ Idle
    /\ call = NoCall

Award(persona_name, amount) ==
    LET ss == init_session_state(session_state[1], progress_file)
        W == add_affinity([progress |-> ss.user_progress, show_reward |-> ss.show_reward,
                           file |-> progress_file], persona_name, amount, TRUE)
    IN  /\ Get(ss.user_progress.affinity, persona_name, 0) + amount <= MaxAffinity
        /\ session_state' = [session_state EXCEPT ![1] =
               [ss EXCEPT !.user_progress = W.progress, !.show_reward = W.show_reward]]
        /\ progress_file' = W.file
        /\ call' = [fn |-> "add_affinity", persona_name |-> persona_name, amount |-> amount]
        /\ UNCHANGED <<today, AI_AVAILABLE, ratings_file, banner, disk_faults, installed>>

NextAffinity ==
    \E persona_name \in Befriended, amount \in AffinityAmounts : Award(persona_name, amount)

SpecAffinity == InitAffinity /\ [][NextAffinity]_vars

(***************************************************************************)
(* Two browser sessions of the application on one progress file.  Each     *)
(* loads the file on its first run and then asks questions; the runs of    *)
(* the two sessions interleave freely (Streamlit runs each session's       *)
(* script in its own thread and the file has no lock).  MaxRace bounds the *)
(* XP a session holds, in explanations.                                    *)
(***************************************************************************)
InitMulti == InitApp({1, 2}, 0)

RaceRoom(s) ==
    session_state[s].user_progress.xp
        < load_user_progress(installed).xp + 10 * MaxRace

DoAskInRace ==
    \E s \in DOMAIN session_state, env \in Envs, q \in Questions, known \in BOOLEAN,
       kickoff \in {"ok", "raises"} :
        RaceRoom(s) /\ AskQuestion(s, q, known, kickoff, env)

NextMulti ==
    \/ Tick
    \/ DoPageLoad
    \/ DoSelectPersona
    \/ DoAskInRace

SpecMulti == InitMulti /\ [][NextMulti]_vars

(***************************************************************************)
(* get_llm (crew.py:34-82) on its own.  The outcomes of its requests.post  *)
(* calls are chosen in advance, one per turn of the loop: a status 200, a  *)
(* status 429, another status ("500"), or an exception of requests.post    *)
(* ("raise").  One step is one turn of the for loop, or the code after it. *)
(* The 429 branch reads the name time (crew.py:66), which crew.py binds    *)
(* only if crew_globals holds it: otherwise the read raises NameError      *)
(* inside the try, and the except clause of line 76 takes it.              *)
(***************************************************************************)
\* the names the module crew.py binds before get_llm is called (lines 1-34)
crew_globals ==
    {"os", "sys", "re", "yaml", "st", "Crew", "Agent", "Task", "build_rag_tool",
     "ChatOpenAI", "FakeListLLM", "cohere", "base_dir", "requests", "HF_API_KEY",
     "HF_API_URL", "get_llm"}

retries == 3

Outcomes == {"200", "429", "500", "raise"}

Response == [type |-> "Response"]

FakeListLLM(response) == [type |-> "FakeListLLM", response |-> response]

NoResult == [type |-> "none"]

Returned(c, value) == [c EXCEPT !.pc = "done", !.result = value]

\* the turn of the loop with an except clause that takes request errors only
llm_attempt_narrow(c) ==
    IF c.attempt >= retries
    THEN Returned(c, FakeListLLM("This is a fallback response."))
    ELSE LET outcome == c.outcomes[c.attempt + 1]
             c1 == [c EXCEPT !.sent = @ + 1]
         IN  CASE outcome = "raise" ->
                    Returned(c1, FakeListLLM("API error: Unable to fetch response."))
               [] outcome = "200" -> Returned(c1, Response)
               [] outcome = "429" ->
                    IF "time" \in crew_globals
                    THEN [c1 EXCEPT !.attempt = @ + 1]
                    ELSE [c1 EXCEPT !.pc = "done", !.raised = "NameError"]
               [] OTHER ->
                    Returned(c1, FakeListLLM(
                        "API error: Unable to fetch response from Hugging Face."))

llm_attempt(c) ==
    IF c.attempt >= retries
    THEN Returned(c, FakeListLLM("This is a fallback response."))
    ELSE LET outcome == c.outcomes[c.attempt + 1]
             c1 == [c EXCEPT !.sent = @ + 1]
         IN  CASE outcome = "raise" ->
                    Returned(c1, FakeListLLM("API error: Unable to fetch response."))
               [] outcome = "200" -> Returned(c1, Response)
               [] outcome = "429" ->
                    IF "time" \in crew_globals
                    THEN [c1 EXCEPT !.attempt = @ + 1]
                    ELSE Returned(c1, FakeListLLM("API error: Unable to fetch response."))
               [] OTHER ->
                    Returned(c1, FakeListLLM(
                        "API error: Unable to fetch response from Hugging Face."))

InitLLM ==
    /\ Idle
    /\ call \in {[fn |-> "get_llm", outcomes |-> o, attempt |-> 0, sent |-> 0,
                  pc |-> "loop", result |-> NoResult, raised |-> "no"] :
                    o \in [1..retries -> Outcomes]}

LLMStep ==
    /\ call.fn = "get_llm" /\ call.pc = "loop"
    /\ call' = llm_attempt(call)
    /\ UNCHANGED <<today, AI_AVAILABLE, progress_file, ratings_file, session_state, banner,
                   disk_faults, installed>>

\* the interpreter runs the function on: a turn that can be taken is taken
SpecLLM == InitLLM /\ [][LLMStep]_vars /\ WF_vars(LLMStep)

(***************************************************************************)
(* The prompt create_crew assembles (crew.py:155-175), on its own.  The    *)
(* explainer template of tasks.yaml is a text with the field {query}; the  *)
(* documents are what the vector store returns for the question.  A        *)
(* reaction string is one atom (its typographic apostrophe written ').     *)
(***************************************************************************)
persona_reactions ==
    [p \in {"Batman", "Yoda", "Spider-Gwen", "Shuri", "Elsa", "Wednesday Addams",
            "Iron Man", "Nova", "Zee", "Sherlock Holmes"} |->
        CASE p = "Batman" -> "Code received. Let's patch the vulnerability."
          [] p = "Yoda" -> "Code, you have pasted. Analyze it, we must."
          [] p = "Spider-Gwen" -> "Let's swing through this syntax."
          [] p = "Shuri" -> "Let's scan it with Wakandan tech."
          [] p = "Elsa" -> "Let me freeze the bugs and refactor."
          [] p = "Wednesday Addams" -> "Let's dissect it like a corpse."
          [] p = "Iron Man" -> "Let's run diagnostics and upgrade it."
          [] p = "Nova" -> "Let's orbit through its logic."
          [] p = "Zee" -> "Let's treat this like a boss fight."
          [] OTHER -> "Let's deduce its structure."]

\* the task description with the reaction before every question
task_description_always(persona, user_question) ==
    <<Get(persona_reactions, persona, "No reaction available."), "\n", "\n">> \o user_question

\* crew.py:156-157
task_description(persona, user_question) ==
    LET reaction == Get(persona_reactions, persona, "No reaction available.")
    IN  IF is_code_input(user_question)
        THEN <<reaction, "\n", "\n">> \o user_question
        ELSE user_question

\* "\n".join(page contents) (rag_tool.py:45-47)
RECURSIVE rag_tool(_)
rag_tool(docs) ==
    IF docs = <<>> THEN <<>>
    ELSE IF Len(docs) = 1 THEN <<docs[1]>>
    ELSE <<docs[1], "\n">> \o rag_tool(Tail(docs))

\* f"{task_description}\n\nRelevant context:\n{context}" (crew.py:166)
task_query(persona, user_question, docs) ==
    task_description(persona, user_question)
        \o <<"\n", "\n", "Relevant context:", "\n">> \o rag_tool(docs)

\* template.format(query=...)
RECURSIVE format(_, _)
format(template, query) ==
    IF template = <<>> THEN <<>>
    ELSE (IF Head(template) = "{query}" THEN query ELSE <<Head(template)>>)
             \o format(Tail(template), query)

Templates == {<<"Explain", ":", " ", "{query}">>, <<"{query}", "\n", "Answer", ":">>}

DocLists == {<<>>, <<"doc1">>, <<"doc1", "doc2">>}

\* one with a reaction string, one without
PromptPersonas == {"Nova", "Katniss Everdeen"}

InitPrompt ==
    /\ Idle
    /\ call \in {[fn |-> "create_crew", persona |-> p, user_question |-> q, docs |-> d,
                  template |-> t, pc |-> "called", description |-> <<>>, kickoffs |-> 0,
                  raised |-> "no"] :
                    p \in PromptPersonas, q \in TextsUpTo(MaxQuestionLen),
                    d \in DocLists, t \in Templates}

\* create_crew from line 155 on, for a persona of agents.yaml and a crew run that returns
Assemble ==
    /\ call.fn = "create_crew" /\ call.pc = "called"
    /\ call' = [call EXCEPT
           !.pc = "done",
           !.description =
               format(call.template, task_query(call.persona, call.user_question, call.docs)),
           !.kickoffs = @ + 1,
           !.raised = create_crew(TRUE, call.persona, call.user_question, TRUE, "ok").raised]
    /\ UNCHANGED <<today, AI_AVAILABLE, progress_file, ratings_file, session_state, banner,
                   disk_faults, installed>>

SpecPrompt == InitPrompt /\ [][Assemble]_vars

(***************************************************************************)
(* levels.py on its own: any sequence of update_level calls for two        *)
(* agents, on config/agent_levels.json absent at first or left by seven    *)
(* earlier calls for Yoda.  The file is a dictionary from agent names to   *)
(* records; calls counts the calls made for each agent.                    *)
(***************************************************************************)
NoLevels == [exists |-> FALSE, data |-> EmptyDict]

load_levels(f) == IF f.exists THEN f.data ELSE EmptyDict

save_levels(data) == [exists |-> TRUE, data |-> data]

\* update_level with > for >= in both thresholds
update_level_late(f, agent_name) ==
    LET levels == load_levels(f)
        agent == Get(levels, agent_name, [level |-> 1, tasks_completed |-> 0])
        a1 == [agent EXCEPT !.tasks_completed = @ + 1]
        a2 == IF a1.tasks_completed > 5 /\ a1.level = 1 THEN [a1 EXCEPT !.level = 2]
              ELSE IF a1.tasks_completed > 10 /\ a1.level = 2 THEN [a1 EXCEPT !.level = 3]
              ELSE a1
    IN  save_levels(Put(levels, agent_name, a2))

update_level(f, agent_name) ==
    LET levels == load_levels(f)
        agent == Get(levels, agent_name, [level |-> 1, tasks_completed |-> 0])
        a1 == [agent EXCEPT !.tasks_completed = @ + 1]
        a2 == IF a1.tasks_completed >= 5 /\ a1.level = 1 THEN [a1 EXCEPT !.level = 2]
              ELSE IF a1.tasks_completed >= 10 /\ a1.level = 2 THEN [a1 EXCEPT !.level = 3]
              ELSE a1
    IN  save_levels(Put(levels, agent_name, a2))

Agents == {"Nova", "Yoda"}

InitLevels ==
    /\ Idle
    /\ call \in {[fn |-> "update_level", agent_levels |-> f, first |-> f,
                  calls |-> [a \in Agents |-> 0]] :
                    f \in {NoLevels,
                           save_levels([a \in {"Yoda"} |->
                                           [level |-> 2, tasks_completed |-> 7]])}}

UpdateLevel(agent_name) ==
    /\ call.fn = "update_level"
    /\ Get(load_levels(call.agent_levels), agent_name,
           [level |-> 1, tasks_completed |-> 0]).tasks_completed < MaxTasks
    /\ call' = [call EXCEPT !.agent_levels = update_level(@, agent_name),
                            !.calls[agent_name] = @ + 1]
    /\ UNCHANGED <<today, AI_AVAILABLE, progress_file, ratings_file, session_state, banner,
                   disk_faults, installed>>

NextLevels == \E agent_name \in Agents : UpdateLevel(agent_name)

SpecLevels == InitLevels /\ [][NextLevels]_vars

(***************************************************************************)
(* create_crew of crew.py statement by statement (crew.py:128-183), on a   *)
(* module that was imported: one call for a persona agents.yaml holds or   *)
(* not, with the answers of the Hugging Face API, of the retrieval and of  *)
(* the crew run chosen in advance.  pc is the line the call has reached;   *)
(* llm is the get_llm call of line 142; queries and kickoffs count the     *)
(* rag_tool and crew.kickoff calls; agent_levels is the levels file.       *)
(***************************************************************************)
\* the names crew.py binds by the time create_crew is called (lines 1-128)
crew_module ==
    crew_globals \cup {"llm", "generated_text", "rag_folder", "rag_tool", "_",
                       "persona_reactions", "is_code_input", "load_yaml", "create_crew"}

NewLLM(outcomes) ==
    [fn |-> "get_llm", outcomes |-> outcomes, attempt |-> 0, sent |-> 0,
     pc |-> "loop", result |-> NoResult, raised |-> "no"]

Raise(c, exception) == [c EXCEPT !.pc = "done", !.raised = exception]

\* create_crew asking for the LLM before it looks the persona up
create_crew_step_eager(c) ==
    CASE c.pc = "137" -> [c EXCEPT !.pc = "142"]
      [] c.pc = "142" ->
            LET l == llm_attempt(c.llm)
            IN  IF l.pc # "done" THEN [c EXCEPT !.llm = l]
                ELSE IF ~c.known THEN Raise([c EXCEPT !.llm = l], "ValueError")
                ELSE [c EXCEPT !.llm = l, !.pc = "160"]
      [] c.pc = "160" ->
            IF c.rag = "ok" THEN [c EXCEPT !.queries = @ + 1, !.pc = "175"]
            ELSE Raise([c EXCEPT !.queries = @ + 1], "Exception")
      [] c.pc = "175" ->
            IF c.kickoff = "ok" THEN [c EXCEPT !.kickoffs = @ + 1, !.pc = "178"]
            ELSE Raise([c EXCEPT !.kickoffs = @ + 1], "Exception")
      [] c.pc = "178" ->
            IF "levels" \in crew_module
            THEN [c EXCEPT !.agent_levels = update_level(@, c.persona), !.pc = "181"]
            ELSE Raise(c, "NameError")
      [] c.pc = "181" -> [c EXCEPT !.pc = "done", !.returned = TRUE]
      [] OTHER -> c

\* the statement at c.pc
create_crew_step(c) ==
    CASE c.pc = "137" ->
            IF ~c.known THEN Raise(c, "ValueError") ELSE [c EXCEPT !.pc = "142"]
      [] c.pc = "142" ->
            LET l == llm_attempt(c.llm)
            IN  [c EXCEPT !.llm = l, !.pc = IF l.pc = "done" THEN "160" ELSE "142"]
      [] c.pc = "160" ->
            IF c.rag = "ok" THEN [c EXCEPT !.queries = @ + 1, !.pc = "175"]
            ELSE Raise([c EXCEPT !.queries = @ + 1], "Exception")
      [] c.pc = "175" ->
            IF c.kickoff = "ok" THEN [c EXCEPT !.kickoffs = @ + 1, !.pc = "178"]
            ELSE Raise([c EXCEPT !.kickoffs = @ + 1], "Exception")
      [] c.pc = "178" ->
            IF "levels" \in crew_module
            THEN [c EXCEPT !.agent_levels = update_level(@, c.persona), !.pc = "181"]
            ELSE Raise(c, "NameError")
      [] c.pc = "181" -> [c EXCEPT !.pc = "done", !.returned = TRUE]
      [] OTHER -> c

\* the levels file four earlier tasks of Nova would have left
FourTasks == save_levels([a \in {"Nova"} |-> [level |-> 1, tasks_completed |-> 4]])

InitCrew ==
    /\ Idle
    /\ call \in {[fn |-> "crew.create_crew", persona |-> p, known |-> k,
                  llm |-> NewLLM(o), rag |-> r, kickoff |-> ko,
                  pc |-> "137", queries |-> 0, kickoffs |-> 0,
                  agent_levels |-> f, first |-> f,
                  raised |-> "no", returned |-> FALSE] :
                    p \in Agents, k \in BOOLEAN, o \in [1..retries -> Outcomes],
                    r \in {"ok", "raise"}, ko \in {"ok", "raise"},
                    f \in {NoLevels, FourTasks}}

CrewStep ==
    /\ call.fn = "crew.create_crew" /\ call.pc # "done"
    /\ call' = create_crew_step(call)
    /\ UNCHANGED <<today, AI_AVAILABLE, progress_file, ratings_file, session_state, banner,
                   disk_faults, installed>>

\* the interpreter runs the call on: a statement that can be run is run
SpecCrew == InitCrew /\ [][CrewStep]_vars /\ WF_vars(CrewStep)

(***************************************************************************)
(* Properties.                                                             *)
(***************************************************************************)
\* the progress record a session holds, or will load on its first run
StoredIn(ss, f) == IF ss.loaded THEN ss.user_progress ELSE load_user_progress(f)

\* the part of the world the helpers act on, as session s has it now
WorldOf(s) ==
    [progress |-> StoredIn(session_state[s], progress_file),
     show_reward |-> session_state[s].show_reward,
     file |-> progress_file]

\* C1: add_xp with an amount >= 0 leaves XP and level at least what they
\* were, so no step of the application lowers the XP or the level a session
\* holds or the XP or the level in the progress file.
C1_XpLevelMonotone ==
    [][\A s \in DOMAIN session_state :
          LET P == StoredIn(session_state[s], progress_file)
              Q == StoredIn(session_state'[s], progress_file')
              F == load_user_progress(progress_file)
              G == load_user_progress(progress_file')
          IN  /\ Q.xp >= P.xp /\ Q.level >= P.level
              /\ G.xp >= F.xp /\ G.level >= F.level
              /\ \A amount \in {0, 5, 10, 15, 20} :
                    LET R == add_xp(WorldOf(s), amount, TRUE).progress
                    IN  R.xp >= P.xp /\ R.level >= P.level]_vars

\* a session that started with 90 XP at level 1 and has reached level 2
C1_Witness ==
    /\ installed = [exists |-> TRUE, data |-> Rookie]
    /\ session_state[1].loaded
    /\ session_state[1].user_progress.level = 2
    /\ session_state[1].user_progress.xp >= 100

\* C2: a script run within calendar day D (update_streak on day D): a last
\* visit on D-1 adds exactly 1 to the streak; an earlier last visit, or none,
\* makes the streak 1; a last visit on D leaves streak and last_visit alone.
C2_StreakCases ==
    [][today' = today =>
          \A s \in DOMAIN session_state :
              LET P == StoredIn(session_state[s], progress_file)
                  Q == StoredIn(session_state'[s], progress_file')
              IN  \/ /\ P.last_visit = today
                     /\ Q.streak = P.streak /\ Q.last_visit = P.last_visit
                  \/ /\ P.last_visit = today - 1
                     /\ Q.streak = P.streak + 1 /\ Q.last_visit = today
                  \/ /\ P.last_visit = NoDate \/ P.last_visit < today - 1
                     /\ Q.streak = 1 /\ Q.last_visit = today]_vars

\* a streak of 1 on day 0 that visits on day 1 and on day 2 have made 3
C2_Witness ==
    /\ installed = [exists |-> TRUE, data |-> Rookie]
    /\ today = 2
    /\ session_state[1].loaded
    /\ session_state[1].user_progress.streak = 3
    /\ session_state[1].user_progress.last_visit = 2

\* C3: a step leaves the ratings log as it was or adds one record at its
\* end, the records before it unchanged and in order; a rating submission
\* that succeeds (the rating form closes, the explanation stays) adds
\* exactly one.
C3_RatingsAppendOnly ==
    [][/\ \/ ratings_file' = ratings_file
          \/ /\ Len(ratings_file') = Len(ratings_file) + 1
             /\ SubSeq(ratings_file', 1, Len(ratings_file)) = ratings_file
       /\ \A s \in DOMAIN session_state :
             ( /\ session_state[s].show_rating
               /\ ~session_state'[s].show_rating
               /\ session_state'[s].explanation # None )
             => /\ Len(ratings_file') = Len(ratings_file) + 1
                /\ ratings_file'[Len(ratings_file')].persona
                       = session_state[s].current_persona]_vars

\* two ratings in the log, the first still in its place
C3_Witness ==
    /\ Len(ratings_file) = 2
    /\ ratings_file[1].persona # ratings_file[2].persona

\* C4: the available set at the user's level is the set of the personas of
\* the catalog whose unlock level is at most that level (four below level
\* 11, six from 11 to 20, all nine from 21 on), and the persona a session
\* has selected is one of them.
C4_AvailableByLevel ==
    \A s \in DOMAIN session_state :
        LET level == StoredIn(session_state[s], progress_file).level
            starters == {"Nova", "Spider-Gwen", "Yoda", "Elsa"}
            middle == {"Batman", "Wednesday Addams"}
            last == {"Shuri", "Iron Man", "Katniss Everdeen"}
        IN  /\ available_personas(level) =
                 starters \cup (IF level >= 11 THEN middle ELSE {})
                          \cup (IF level >= 21 THEN last ELSE {})
            /\ session_state[s].current_persona # NoPersona =>
                   /\ session_state[s].current_persona \in available_personas(level)
                   /\ persona_unlock_levels[session_state[s].current_persona] <= level

\* a session at level 21 with a persona of unlock level 21 selected
C4_Witness ==
    /\ session_state[1].current_persona = "Shuri"
    /\ session_state[1].user_progress.level = 21

\* the atom at i is the keyword kw standing as a word of its own
KeywordAt(text, i, kw) ==
    /\ text[i] = kw
    /\ ~IsWordAt(text, i - 1)
    /\ ~IsWordAt(text, i + 1)

AllIn(text, from, to, set) == \A m \in from..to : text[m] \in set

Blanks == {" ", "\n"}

\* name = value, name(...), {...} or <...> on one line
HasShape(text) ==
    \E i \in 1..Len(text), j \in 1..Len(text) :
        /\ i < j
        /\ \/ /\ text[i] \in WordAtoms /\ text[j] = "="
              /\ AllIn(text, i + 1, j - 1, Blanks)
              /\ \E k \in (j + 1)..Len(text) :
                    AllIn(text, j + 1, k - 1, Blanks) /\ text[k] # "\n"
           \/ /\ text[i] \in WordAtoms /\ text[i + 1] = "(" /\ text[j] = ")"
              /\ i + 1 < j
              /\ AllIn(text, i + 2, j - 1, Atoms \ {"\n"})
           \/ /\ text[i] = "{" /\ text[j] = "}"
              /\ AllIn(text, i + 1, j - 1, Atoms \ {"\n"})
           \/ /\ text[i] = "<" /\ text[j] = ">"
              /\ AllIn(text, i + 1, j - 1, Atoms \ {"\n"})

\* C5 as stated: is_code_input returns true for every text that contains
\* one of the nine keywords as a word, or one of the four shapes, and false
\* for every other text.
C5_KeywordPresence ==
    (call.fn = "is_code_input" /\ call.returned) =>
        (call.result <=>
            \/ \E i \in 1..Len(call.text), kw \in Keywords : KeywordAt(call.text, i, kw)
            \/ HasShape(call.text))

\* C5: is_code_input returns true exactly for the texts that hold def,
\* class, import or return as a word; or if, for or while as a word and,
\* after it, blanks, a stretch without a newline, blanks and a colon; or
\* try or except as a word and, after blanks only, a colon; or one of the
\* four shapes.  if, for, while, try or except without that colon does not
\* make a text code.
C5_PatternMatch ==
    (call.fn = "is_code_input" /\ call.returned) =>
        LET text == call.text
            N == Len(text)
        IN  call.result <=>
            \/ \E i \in 1..N :
                  \E kw \in {"def", "class", "import", "return"} : KeywordAt(text, i, kw)
            \/ \E i \in 1..N, j \in 1..N :
                  /\ i < j /\ text[j] = ":"
                  /\ \E kw \in {"if", "for", "while"} : KeywordAt(text, i, kw)
                  /\ \E a \in (i + 1)..j, b \in (i + 1)..j :
                        /\ a <= b
                        /\ AllIn(text, i + 1, a - 1, Blanks)
                        /\ AllIn(text, a, b - 1, Atoms \ {"\n"})
                        /\ AllIn(text, b, j - 1, Blanks)
            \/ \E i \in 1..N, j \in 1..N :
                  /\ i < j /\ text[j] = ":"
                  /\ \E kw \in {"try", "except"} : KeywordAt(text, i, kw)
                  /\ AllIn(text, i + 1, j - 1, Blanks)
            \/ HasShape(text)

\* "for x" is not code, "for x:" is
C5_Witness ==
    /\ call.fn = "is_code_input" /\ call.returned
    /\ \/ call.text = <<"for", " ", "x">> /\ ~call.result
       \/ call.text = <<"for", "x", ":">> /\ call.result

\* C6: one add_xp(amount) call adds amount to the XP and raises the level by
\* exactly one when the new XP is at least 100 times the level held before
\* the call, by nothing otherwise, however many thresholds the amount spans.
C6_SingleStepLevel ==
    [][call'.fn = "add_xp" =>
          LET P == StoredIn(session_state[1], progress_file)
              Q == session_state'[1].user_progress
          IN  /\ Q.xp = P.xp + call'.amount
              /\ Q.level = P.level + (IF Q.xp >= P.level * 100 THEN 1 ELSE 0)
              /\ Q.level <= P.level + 1]_vars

\* 250 XP granted at once to the default record: two thresholds passed, one level gained
C6_Witness ==
    /\ call.fn = "add_xp" /\ call.amount = 250
    /\ session_state[1].user_progress.xp = 250
    /\ session_state[1].user_progress.level = 2

\* C7: with the grants of the application (5, 10, 15 and 20 XP) every
\* state has (level - 1) * 100 <= xp < level * 100, that is
\* level = xp div 100 + 1, in every session and in the progress file.
C7_LevelOfXp ==
    \A s \in DOMAIN session_state :
        LET P == StoredIn(session_state[s], progress_file)
            F == load_user_progress(progress_file)
        IN  /\ (P.level - 1) * 100 <= P.xp /\ P.xp < P.level * 100
            /\ P.level = (P.xp \div 100) + 1
            /\ F.level = (F.xp \div 100) + 1

\* level 10 with 990 XP has become level 11 on passing 1000 XP
C7_Witness ==
    /\ installed = [exists |-> TRUE, data |-> Veteran10]
    /\ session_state[1].loaded
    /\ session_state[1].user_progress.level = 11
    /\ session_state[1].user_progress.xp >= 1000

\* C8: no step lowers or removes the affinity of a persona, in a session's
\* record or in the progress file.
C8_AffinityMonotone ==
    [][\A s \in DOMAIN session_state :
          LET P == StoredIn(session_state[s], progress_file).affinity
              Q == StoredIn(session_state'[s], progress_file').affinity
              F == load_user_progress(progress_file).affinity
              G == load_user_progress(progress_file').affinity
          IN  /\ \A x \in DOMAIN P : x \in DOMAIN Q /\ Q[x] >= P[x]
              /\ \A x \in DOMAIN F : x \in DOMAIN G /\ G[x] >= F[x]]_vars

\* Nova's affinity has grown from 15 to 25, Yoda's 15 is still there
C8_Witness ==
    /\ installed = [exists |-> TRUE, data |-> Veteran10]
    /\ session_state[1].loaded
    /\ "Yoda" \in DOMAIN session_state[1].user_progress.affinity
    /\ Get(session_state[1].user_progress.affinity, "Nova", 0) = 25
    /\ session_state[1].user_progress.affinity["Yoda"] = 15

\* C9: on a disk that takes every write, a script run of the one session
\* that changes the progress record leaves the progress file holding the
\* whole record (level, xp, streak, last_visit, affinity), and so does each
\* add_xp and add_affinity call made on the state reached.
C9_PersistedInFull ==
    [][\A s \in DOMAIN session_state :
          LET P == StoredIn(session_state[s], progress_file)
              Q == StoredIn(session_state'[s], progress_file')
              A == add_xp(WorldOf(s), 5, TRUE)
              Z == add_affinity(WorldOf(s), "Nova", 5, TRUE)
          IN  /\ Q # P => progress_file' = [exists |-> TRUE, data |-> Q]
              /\ A.file = [exists |-> TRUE, data |-> A.progress]
              /\ Z.file = [exists |-> TRUE, data |-> Z.progress]]_vars

\* after a question to Nova the file holds the XP and the affinity of the session
C9_Witness ==
    /\ session_state[1].loaded
    /\ progress_file = [exists |-> TRUE, data |-> session_state[1].user_progress]
    /\ session_state[1].user_progress.xp > load_user_progress(installed).xp
    /\ Get(session_state[1].user_progress.affinity, "Nova", 0)
           > Get(load_user_progress(installed).affinity, "Nova", 0)

\* C10: with two sessions on the one file, a write puts one session's whole
\* record in the file, with nothing of what the file held before: the file
\* never holds a merge of the two sessions' records.
C10_WholeRecordWrite ==
    [][progress_file' # progress_file =>
          \E s \in DOMAIN session_state :
              progress_file' = [exists |-> TRUE, data |-> session_state'[s].user_progress]]_vars

\* both sessions loaded the file and each earned XP and affinity, which its
\* writes put in the file; the file now holds the record of t, in which the
\* XP and the affinity s earned are missing
C10_Witness ==
    \E s \in DOMAIN session_state, t \in DOMAIN session_state :
        LET base == load_user_progress(installed)
            S == session_state[s].user_progress
            T == session_state[t].user_progress
        IN  /\ s # t
            /\ session_state[s].loaded /\ session_state[t].loaded
            /\ S.xp > base.xp /\ T.xp > base.xp
            /\ Get(S.affinity, "Nova", 0) > Get(base.affinity, "Nova", 0)
            /\ progress_file = [exists |-> TRUE, data |-> T]
            /\ progress_file.data.xp < base.xp + (S.xp - base.xp) + (T.xp - base.xp)
            /\ Get(T.affinity, "Nova", 0) < Get(S.affinity, "Nova", 0)

\* C11: a run of the question or code review handler in which create_crew
\* raises shows the error and leaves the session as it was: the XP grows by
\* nothing but the streak bonus of the run, no affinity changes, and
\* explanation, code_review, current_question and show_rating are kept.
C11_FailureLeavesSession ==
    [][banner' = "error" =>
          \A s \in DOMAIN session_state :
              LET P == StoredIn(session_state[s], progress_file)
                  Q == StoredIn(session_state'[s], progress_file')
                  milestone == Q.streak = P.streak + 1 /\ Q.streak % 7 = 0
              IN  /\ Q.xp = P.xp + (IF milestone THEN 20 ELSE 0)
                  /\ Q.affinity = P.affinity
                  /\ session_state'[s].explanation = session_state[s].explanation
                  /\ session_state'[s].code_review = session_state[s].code_review
                  /\ session_state'[s].current_question = session_state[s].current_question
                  /\ session_state'[s].show_rating = session_state[s].show_rating]_vars

\* create_crew has raised in a code review by Nova; XP and affinity are those the file held
C11_Witness ==
    /\ banner = "error"
    /\ AI_AVAILABLE
    /\ session_state[1].current_persona = "Nova"
    /\ session_state[1].active_mode = "code_review"
    /\ session_state[1].code_review = None
    /\ session_state[1].user_progress.xp = load_user_progress(installed).xp
    /\ session_state[1].user_progress.affinity = load_user_progress(installed).affinity

\* C12: whatever the requests return or raise, get_llm ends, raises nothing
\* and returns the provider's response or a FakeListLLM with one of the
\* three canned responses.
C12_NeverPropagates ==
    /\ [](call.pc = "done" =>
            /\ call.raised = "no"
            /\ \/ call.result = Response
               \/ /\ call.result.type = "FakeListLLM"
                  /\ call.result.response \in
                        {"API error: Unable to fetch response.",
                         "API error: Unable to fetch response from Hugging Face.",
                         "This is a fallback response."})
    /\ <>(call.pc = "done")

\* a rate-limited first request: get_llm has returned a FakeListLLM
C12_Witness ==
    /\ call.fn = "get_llm" /\ call.pc = "done"
    /\ call.outcomes[1] = "429"
    /\ call.raised = "no"
    /\ call.result.type = "FakeListLLM"

\* the first request that is not rate-limited, retries + 1 when there is none
RECURSIVE FirstNot429(_, _)
FirstNot429(outcomes, k) ==
    IF k > Len(outcomes) \/ outcomes[k] # "429" THEN k ELSE FirstNot429(outcomes, k + 1)

\* C13: get_llm sends a request again after each 429, up to 3 requests;
\* it returns the response of the first 200, the API-error fallback at the
\* first other status with no further request, and 'This is a fallback
\* response.' only when all 3 requests were rate-limited.
C13_BoundedRetry ==
    (call.fn = "get_llm" /\ call.pc = "done") =>
        LET k == FirstNot429(call.outcomes, 1)
        IN  /\ call.sent <= 3
            /\ call.sent = (IF k > 3 THEN 3 ELSE k)
            /\ k > 3 => call.result = FakeListLLM("This is a fallback response.")
            /\ k <= 3 =>
                  CASE call.outcomes[k] = "200" -> call.result = Response
                    [] call.outcomes[k] = "500" ->
                          call.result = FakeListLLM(
                              "API error: Unable to fetch response from Hugging Face.")
                    [] OTHER -> call.result.type = "FakeListLLM"

\* C14: the query of the task is the question, with the persona's reaction
\* ('No reaction available.' for a persona without one) and an empty line
\* before it exactly when is_code_input finds the question to be code, and
\* with the retrieved context after it; the description submitted is the
\* explainer template with the query in its field, in one kickoff.
C14_PromptAssembly ==
    (call.fn = "create_crew" /\ call.pc = "done") =>
        LET q == call.user_question
            reaction == IF call.persona = "Nova" THEN "Let's orbit through its logic."
                        ELSE "No reaction available."
            context == CASE call.docs = <<>> -> <<>>
                         [] call.docs = <<"doc1">> -> <<"doc1">>
                         [] OTHER -> <<"doc1", "\n", "doc2">>
            query == (IF is_code_input(q) THEN <<reaction, "\n", "\n">> ELSE <<>>)
                        \o q \o <<"\n", "\n", "Relevant context:", "\n">> \o context
            n == Len(query)
        IN  /\ call.kickoffs = 1
            /\ Len(call.description) = Len(call.template) - 1 + n
            /\ \E h \in 1..Len(call.template) :
                  /\ call.template[h] = "{query}"
                  /\ SubSeq(call.description, 1, h - 1) = SubSeq(call.template, 1, h - 1)
                  /\ SubSeq(call.description, h, h + n - 1) = query
                  /\ SubSeq(call.description, h + n, Len(call.description))
                         = SubSeq(call.template, h + 1, Len(call.template))

\* code put to a persona without a reaction string, nothing retrieved
C14_Witness ==
    /\ call.fn = "create_crew" /\ call.pc = "done"
    /\ call.persona = "Katniss Everdeen"
    /\ call.user_question = <<"return", " ">>
    /\ call.docs = <<>>
    /\ call.template = <<"Explain", ":", " ", "{query}">>
    /\ call.description =
           <<"Explain", ":", " ", "No reaction available.", "\n", "\n", "return", " ",
             "\n", "\n", "Relevant context:", "\n">>

\* what the library shows for a record: library; what it showed before: earlier
LibraryRight(library, earlier, progress) ==
    /\ library =
           [p \in {x \in DOMAIN persona_unlock_levels :
                      persona_unlock_levels[x] <= progress.level} |->
               [i \in 1..Len(CODE_SNIPPETS[p]) |->
                   Get(progress.affinity, p, 0) >= CODE_SNIPPETS[p][i]]]
    /\ \A p \in DOMAIN earlier :
          /\ p \in DOMAIN library
          /\ \A i \in DOMAIN earlier[p] : earlier[p][i] => library[p][i]

\* C15: in the snippets library a snippet of an available persona is shown
\* unlocked exactly when the persona's affinity is at least the snippet's
\* tier, which is 0, 25 or 50; and a snippet shown unlocked in a state is
\* shown unlocked in every later state.  (The library is a function of the
\* level and the affinities: it is looked at when a session gets its record
\* and whenever one of them changes.)
C15_SnippetUnlocks ==
    [][/\ \A p \in DOMAIN CODE_SNIPPETS : \A i \in DOMAIN CODE_SNIPPETS[p] :
             CODE_SNIPPETS[p][i] \in {0, 25, 50}
       /\ \A s \in DOMAIN session_state :
             LET P == StoredIn(session_state[s], progress_file)
                 Q == StoredIn(session_state'[s], progress_file')
             IN  \/ /\ session_state[s].loaded
                    /\ Q.level = P.level /\ Q.affinity = P.affinity
                 \/ LibraryRight(snippets_library(Q), snippets_library(P), Q)]_vars

\* the library is open; Nova's affinity has grown from 15 to 25 and her
\* snippets of tier 25 are unlocked, those of tier 50 are not
C15_Witness ==
    /\ installed = [exists |-> TRUE, data |-> Veteran10]
    /\ session_state[1].show_snippets
    /\ Get(session_state[1].user_progress.affinity, "Nova", 0) = 25
    /\ snippets_library(session_state[1].user_progress)["Nova"]
           = <<TRUE, TRUE, TRUE, TRUE, FALSE, FALSE>>

\* what the step did in session s: a successful explanation, a successful
\* code review, a rating appended to the log
Explained(s) == session_state'[s] # session_state[s] /\ banner' = "explained"

Reviewed(s) == session_state'[s] # session_state[s] /\ banner' = "reviewed"

Rated == Len(ratings_file') = Len(ratings_file) + 1

\* the streak of session s has reached a multiple of 7 in the step
Milestone(s) ==
    LET P == StoredIn(session_state[s], progress_file)
        Q == StoredIn(session_state'[s], progress_file')
    IN  Q.streak = P.streak + 1 /\ Q.streak % 7 = 0

\* C16: every step adds to the XP 10 for a successful explanation, 15 for
\* a successful code review, 5 for a rating saved and 20 for a streak
\* milestone reached, and nothing else; the default record starts at 0 XP.
C16_XpAccounting ==
    [][\A s \in DOMAIN session_state :
          LET P == StoredIn(session_state[s], progress_file)
              Q == StoredIn(session_state'[s], progress_file')
          IN  /\ session_state'[s].loaded =>
                     Q.xp = P.xp + (IF Explained(s) THEN 10 ELSE 0)
                                 + (IF Reviewed(s) THEN 15 ELSE 0)
                                 + (IF Rated THEN 5 ELSE 0)
                                 + (IF Milestone(s) THEN 20 ELSE 0)
              /\ (~progress_file.exists /\ ~session_state[s].loaded) => P.xp = 0]_vars

\* from the default record: one explanation and one rating, 15 XP
C16_Witness ==
    /\ installed = NoFile
    /\ Len(ratings_file) = 1
    /\ session_state[1].user_progress.xp = 15
    /\ session_state[1].user_progress.streak = 1

\* C17: every step adds to the affinity of the selected persona 10 for a
\* successful explanation, 15 for a successful code review, 5 for a rating
\* saved whose three marks average at least 4 (sum at least 12), nothing
\* for a rating with a lower average, and leaves every other persona's
\* affinity as it was.
C17_AffinityAccounting ==
    [][\A s \in DOMAIN session_state :
          LET P == StoredIn(session_state[s], progress_file)
              Q == StoredIn(session_state'[s], progress_file')
              selected == session_state[s].current_persona
              saved == ratings_file'[Len(ratings_file')]
              high == saved.clarity + saved.accuracy + saved.helpfulness >= 12
              gain == (IF Explained(s) THEN 10 ELSE 0)
                          + (IF Reviewed(s) THEN 15 ELSE 0)
                          + (IF Rated /\ high THEN 5 ELSE 0)
          IN  \A p \in DOMAIN persona_unlock_levels :
                  session_state'[s].loaded =>
                  Get(Q.affinity, p, 0) =
                      Get(P.affinity, p, 0) + (IF p = selected THEN gain ELSE 0)]_vars

\* an explanation by Nova rated 4, 4, 4: 15 affinity more than at the
\* start; Yoda's affinity is as it was
C17_Witness ==
    /\ installed = [exists |-> TRUE, data |-> Veteran10]
    /\ banner = "rated_high"
    /\ ratings_file[Len(ratings_file)].persona = "Nova"
    /\ session_state[1].user_progress.affinity["Nova"] = 30
    /\ session_state[1].user_progress.affinity["Yoda"] = 15

\* the XP the handler of the step awarded in session s
HandlerXp(s) ==
    (IF Explained(s) THEN 10 ELSE 0) + (IF Reviewed(s) THEN 15 ELSE 0)
        + (IF Rated THEN 5 ELSE 0)

\* C18: the XP a script run adds beyond its handler's award is the bonus of
\* update_streak: 20 exactly when the run takes the streak one up to a
\* multiple of 7, 0 otherwise; the run that grants it is the first of its
\* day, a run on the day of the last visit grants nothing and leaves the
\* streak alone, and so does a run that resets the streak to 1 or takes it
\* to a number 7 does not divide.
C18_MilestoneBonus ==
    [][\A s \in DOMAIN session_state :
          session_state'[s].loaded =>
              LET P == StoredIn(session_state[s], progress_file)
                  Q == StoredIn(session_state'[s], progress_file')
                  bonus == Q.xp - P.xp - HandlerXp(s)
                  incremented == Q.streak = P.streak + 1
              IN  /\ bonus \in {0, 20}
                  /\ bonus = 20 <=> (incremented /\ Q.streak % 7 = 0)
                  /\ bonus = 20 => (P.last_visit = today - 1 /\ Q.last_visit = today)
                  /\ P.last_visit = today => (bonus = 0 /\ Q.streak = P.streak)
                  /\ (incremented /\ Q.streak % 7 # 0) => bonus = 0
                  /\ (~incremented /\ Q.streak = 1) => bonus = 0]_vars

\* the second day in a row after 341: 343 days, 49 weeks, 20 XP more
C18_Witness ==
    /\ installed = [exists |-> TRUE, data |-> Veteran10]
    /\ today = 2
    /\ session_state[1].loaded
    /\ session_state[1].user_progress.streak = 343
    /\ session_state[1].user_progress.last_visit = 2
    /\ session_state[1].user_progress.xp = 1010

\* C19: a step that ends with "Failed to save rating." leaves the ratings
\* log as it was, awards no XP (the streak bonus of the run apart) and no
\* affinity, and leaves show_rating true, so the form is still there; a step
\* that ends with "Rating submitted!" has appended the record of the
\* selected persona to the log.
C19_RatingFailure ==
    [][/\ banner' = "rating_failed" =>
              /\ ratings_file' = ratings_file
              /\ \E s \in DOMAIN session_state :
                     /\ session_state'[s].show_rating
                     /\ session_state'[s].explanation # None
              /\ \A s \in DOMAIN session_state :
                     LET P == StoredIn(session_state[s], progress_file)
                         Q == StoredIn(session_state'[s], progress_file')
                     IN  /\ session_state'[s].show_rating = session_state[s].show_rating
                         /\ session_state'[s].loaded =>
                                /\ Q.xp = P.xp + (IF Milestone(s) THEN 20 ELSE 0)
                                /\ Q.affinity = P.affinity
       /\ \A s \in DOMAIN session_state :
              (banner' \in {"rated", "rated_high"} /\ session_state'[s] # session_state[s]) =>
                  /\ Rated
                  /\ ratings_file'[Len(ratings_file')].persona = session_state[s].current_persona
                  /\ ~session_state'[s].show_rating]_vars

\* an explanation, then a rating that could not be saved: the 10 XP of the
\* explanation only, an empty log, the form still shown
C19_Witness ==
    /\ installed = NoFile
    /\ banner = "rating_failed"
    /\ ratings_file = <<>>
    /\ session_state[1].show_rating
    /\ session_state[1].explanation # None
    /\ session_state[1].user_progress.xp = 10
    /\ session_state[1].user_progress.affinity = [p \in {"Nova"} |-> 10]

\* the record update_level reads for an agent: the file's, or the default
EntryOf(f, a) == Get(load_levels(f), a, [level |-> 1, tasks_completed |-> 0])

\* C20: every update_level call adds exactly 1 to the tasks_completed of its
\* agent and leaves the other agents' records alone; an agent absent from
\* the file at first has, after n calls, n tasks and level 1 for n < 5, 2
\* for 5 <= n < 10, 3 for n >= 10; no call lowers a level, takes it above 3
\* or raises it by more than one.
C20_LevelByTasks ==
    [][call'.fn = "update_level" =>
          \A a \in Agents :
              LET P == EntryOf(call.agent_levels, a)
                  Q == EntryOf(call'.agent_levels, a)
                  n == call'.calls[a]
                  called == n = call.calls[a] + 1
              IN  /\ Q.tasks_completed = P.tasks_completed + (IF called THEN 1 ELSE 0)
                  /\ called => a \in DOMAIN load_levels(call'.agent_levels)
                  /\ ~called => Q = P
                  /\ Q.level >= P.level /\ Q.level <= P.level + 1 /\ Q.level <= 3
                  /\ a \notin DOMAIN load_levels(call.first) =>
                         /\ Q.tasks_completed = n
                         /\ Q.level = (IF n < 5 THEN 1 ELSE IF n < 10 THEN 2 ELSE 3)]_vars

\* ten calls for Nova from an absent file: level 3; four for Yoda: level 1
C20_Witness ==
    /\ call.fn = "update_level"
    /\ call.first = NoLevels
    /\ call.calls = [a \in Agents |-> IF a = "Nova" THEN 10 ELSE 4]
    /\ call.agent_levels.data["Nova"] = [level |-> 3, tasks_completed |-> 10]
    /\ call.agent_levels.data["Yoda"] = [level |-> 1, tasks_completed |-> 4]

\* C21: a create_crew call whose kickoff completed ends by returning, with
\* one more task for its persona in the levels file than before the call,
\* and a call that ended before the kickoff leaves the file as it was.
C21_LevelUpdated ==
    (call.fn = "crew.create_crew" /\ call.pc = "done") =>
        /\ (call.kickoffs = 1 /\ call.kickoff = "ok") =>
               /\ call.raised = "no" /\ call.returned
               /\ EntryOf(call.agent_levels, call.persona).tasks_completed =
                      EntryOf(call.first, call.persona).tasks_completed + 1
        /\ call.kickoffs = 0 => call.agent_levels = call.first

\* C22: a create_crew call for a persona agents.yaml does not hold ends with
\* ValueError and has sent no request to the API, made no retrieval query,
\* kicked off no crew and written neither the levels file nor the progress
\* file nor the ratings log; every call ends.
C22_UnknownPersona ==
    /\ []((call.fn = "crew.create_crew" /\ ~call.known) =>
            /\ call.llm.sent = 0 /\ call.llm.pc = "loop"
            /\ call.queries = 0 /\ call.kickoffs = 0
            /\ call.agent_levels = call.first
            /\ progress_file = installed /\ ratings_file = <<>>
            /\ ~call.returned
            /\ call.pc = "done" => call.raised = "ValueError"
            /\ call.raised \in {"no", "ValueError"})
    /\ <>(call.pc = "done")

\* Nova unknown to agents.yaml, an API that would answer 200: ValueError
C22_Witness ==
    /\ call.fn = "crew.create_crew" /\ call.pc = "done"
    /\ ~call.known /\ call.persona = "Nova"
    /\ call.llm.outcomes[1] = "200"
    /\ call.raised = "ValueError"
    /\ call.agent_levels = FourTasks

\* C23: an add_affinity call that sets an affinity reward (the popup that
\* says "New code snippets unlocked!") has unlocked a snippet of its
\* persona: one whose tier the affinity was below before the call and is
\* not below after it.
C23_RewardTruthful ==
    [][(/\ call'.fn = "add_affinity"
        /\ session_state'[1].show_reward # session_state[1].show_reward
        /\ session_state'[1].show_reward.type = "affinity") =>
          LET persona_name == session_state'[1].show_reward.persona
              old_affinity ==
                  Get(StoredIn(session_state[1], progress_file).affinity, persona_name, 0)
              new_affinity ==
                  Get(StoredIn(session_state'[1], progress_file').affinity, persona_name, 0)
          IN  /\ persona_name = call'.persona_name
              /\ \E i \in DOMAIN CODE_SNIPPETS[persona_name] :
                     /\ ~is_unlocked(old_affinity, CODE_SNIPPETS[persona_name][i])
                     /\ is_unlocked(new_affinity, CODE_SNIPPETS[persona_name][i])]_vars

====
